---- MODULE Spec2Model ----
(***************************************************************************)
(* Model of reproducibility.py: make_workflow_reproducible resets the      *)
(* directory w_d/reproducibility, copies the *.py entries of the current   *)
(* directory there, records the git revision and exports the conda         *)
(* environment.  Strings are sequences of one-character strings, so that   *)
(* endswith, split, strip, basename, join and strftime are computed.       *)
(***************************************************************************)
EXTENDS Integers, Sequences, FiniteSets, TLC

\* ------------------------------------------------------------------ bounds
\* Number of orchestrator runs explored against the same destination.
MaxRuns == 2
\* Number of clock ticks the environment may let pass in a behaviour.
MaxTicks == 2
\* Clock resolution: ticks per second (strftime truncates to the second).
TicksPerSecond == 2
\* Clock reading at the start: the last tick of second 59 of the day.
StartTick == 60 * TicksPerSecond - 1

\* ------------------------------------------------------ string primitives
RECURSIVE Concat(_)
\* "".join(parts)
Concat(parts) ==
    IF parts = <<>> THEN <<>> ELSE Head(parts) \o Concat(Tail(parts))

\* s.endswith(suffix)
EndsWith(s, suffix) ==
    /\ Len(s) >= Len(suffix)
    /\ SubSeq(s, Len(s) - Len(suffix) + 1, Len(s)) = suffix

\* c in s
Contains(s, c) == \E i \in 1..Len(s) : s[i] = c

IsSpace(c) == c \in {" ", "\n"}

RECURSIVE LStrip(_)
LStrip(s) == IF s # <<>> /\ IsSpace(Head(s)) THEN LStrip(Tail(s)) ELSE s

RECURSIVE RStrip(_)
RStrip(s) ==
    IF s # <<>> /\ IsSpace(s[Len(s)]) THEN RStrip(SubSeq(s, 1, Len(s) - 1)) ELSE s

\* s.strip()
Strip(s) == RStrip(LStrip(s))

RECURSIVE SplitOn(_, _, _)
\* s.split(sep) for a one-character sep; cur is the piece being read.
SplitOn(s, sep, cur) ==
    IF s = <<>> THEN <<cur>>
    ELSE IF Head(s) = sep THEN <<cur>> \o SplitOn(Tail(s), sep, <<>>)
    ELSE SplitOn(Tail(s), sep, Append(cur, Head(s)))

\* s.split('\n')
SplitLines(s) == SplitOn(s, "\n", <<>>)

\* s.split(): the non-empty runs of non-whitespace characters.
SplitWs(s) == SelectSeq(SplitOn(s, " ", <<>>), LAMBDA w : w # <<>>)

RECURSIVE LastSlash(_, _)
\* s.rfind('/') counted from 1, 0 when there is none.
LastSlash(s, i) == IF i = 0 THEN 0 ELSE IF s[i] = "/" THEN i ELSE LastSlash(s, i - 1)

\* os.path.basename(s)
Basename(s) == SubSeq(s, LastSlash(s, Len(s)) + 1, Len(s))

\* os.path.join(d, name)
PathJoin(d, name) == IF d # <<>> /\ d[Len(d)] = "/" THEN d \o name ELSE d \o <<"/">> \o name

Digits == <<"0", "1", "2", "3", "4", "5", "6", "7", "8", "9">>

\* "%02d"
TwoDigits(n) == <<Digits[(n \div 10) + 1], Digits[(n % 10) + 1]>>

\* The day the model runs in, as strftime("%Y%m%d") prints it.
Today == <<"2", "0", "2", "5", "0", "1", "0", "1">>

\* datetime.now().strftime("%Y%m%d_%H%M%S") for a clock of ticks since midnight
Strftime(t) ==
    LET secs == t \div TicksPerSecond
    IN  Concat(<<Today, <<"_">>,
                 TwoDigits((secs \div 3600) % 24),
                 TwoDigits((secs \div 60) % 60),
                 TwoDigits(secs % 60)>>)

\* ----------------------------------------------------------- file names
DotPy == <<".", "p", "y">>
DotTxt == <<".", "t", "x", "t">>
DotYml == <<".", "y", "m", "l">>
DotGit == <<".", "g", "i", "t">>
Underscore == <<"_">>
GitCommitPrefix == <<"g", "i", "t", "_", "c", "o", "m", "m", "i", "t", "_">>
CondaEnvPrefix == <<"c", "o", "n", "d", "a", "_", "e", "n", "v", "_">>
Reproducibility ==
    <<"r", "e", "p", "r", "o", "d", "u", "c", "i", "b", "i", "l", "i", "t", "y">>

APy == <<"a", ".", "p", "y">>
BPy == <<"b", ".", "p", "y">>
NotesTxt == <<"n", "o", "t", "e", "s", ".", "t", "x", "t">>
\* Entry names the current directory may hold.
Names == {APy, BPy, NotesTxt}

\* File contents.
DataX == <<"x">>
DataY == <<"y">>

Absent == [kind |-> "absent", data |-> <<>>]
Dir == [kind |-> "dir", data |-> <<>>]
File(d) == [kind |-> "file", data |-> d]

\* The current directories a run is started in.
CwdInputs ==
    {c \in [Names -> {Absent, Dir, File(DataX), File(DataY)}] :
        /\ c[APy] \in {Absent, Dir, File(DataX)}
        /\ c[BPy] \in {Absent, File(DataY)}
        /\ c[NotesTxt] = File(DataX)}

\* Values of the w_d argument.
WorkDirs == {<<".">>, <<"w">>}

\* Absolute path of the current directory.
CwdAbsPath == <<"/", "h", "/", "p", "r", "j">>

\* A file of the destination directory: its name, its content (a sequence
\* of strings) and the run that wrote it (0: present before the first run).
StaleFile == [name |-> <<"o", "l", "d">>, data |-> <<DataX>>, run |-> 0]

\* The file with the given name replaced or created.
WriteFile(fs, name, data, r) ==
    {f \in fs : f.name # name} \cup {[name |-> name, data |-> data, run |-> r]}

\* ------------------------------------------------- directory preparation
\* shutil.rmtree(r_d) on an existing path: kept is what could not be deleted
\* (denied: the directory itself could not be removed).
rmtree(kind, fs, kept, denied) ==
    IF kind = "file"
    THEN [kind |-> kind, files |-> fs, exc |-> "rmtree: NotADirectoryError"]
    ELSE IF kept # {} \/ denied
    THEN [kind |-> "dir", files |-> kept, exc |-> "rmtree: PermissionError"]
    ELSE [kind |-> "absent", files |-> {}, exc |-> "none"]

\* os.mkdir(r_d)
mkdir(kind, fs, ok) ==
    IF kind # "absent" THEN [kind |-> kind, files |-> fs, exc |-> "mkdir: FileExistsError"]
    ELSE IF ~ok THEN [kind |-> "absent", files |-> {}, exc |-> "mkdir: PermissionError"]
    ELSE [kind |-> "dir", files |-> {}, exc |-> "none"]

\* Mutant: os.makedirs(r_d, exist_ok=True) in place of the reset; an existing
\* directory is kept with what it holds.
ResetDirectoryKeepsOld(kind, fs, kept, denied, mkOk) ==
    IF kind = "dir" THEN [kind |-> "dir", files |-> fs, exc |-> "none"]
    ELSE mkdir(kind, fs, mkOk)

\* Mutant: the reset wrapped in try/except: pass; its failures are swallowed.
ResetDirectoryIgnoresErrors(kind, fs, kept, denied, mkOk) ==
    LET removed == IF kind # "absent" THEN rmtree(kind, fs, kept, denied)
                   ELSE [kind |-> kind, files |-> fs, exc |-> "none"]
        made == IF removed.exc # "none" THEN removed
                ELSE mkdir(removed.kind, removed.files, mkOk)
    IN  [made EXCEPT !.exc = "none"]

\* Lines 180-182: if os.path.exists(r_d): shutil.rmtree(r_d); os.mkdir(r_d)
ResetDirectory(kind, fs, kept, denied, mkOk) ==
    LET removed == IF kind # "absent" THEN rmtree(kind, fs, kept, denied)
                   ELSE [kind |-> kind, files |-> fs, exc |-> "none"]
    IN  IF removed.exc # "none" THEN removed
        ELSE mkdir(removed.kind, removed.files, mkOk)

\* ------------------------------------------------------------ source copier
\* os.listdir("."): the entries of the current directory; the destination
\* directory is one of them when w_d is the current directory.
ListDir(dir, wd, dkind) ==
    {n \in Names : dir[n].kind # "absent"}
        \cup (IF wd = <<".">> /\ dkind # "absent" THEN {Reproducibility} ELSE {})

\* Line 167: the entries whose name ends with one of the extensions.
MatchingFiles(listing, extensions) ==
    {s \in listing : \E ext \in extensions : EndsWith(s, ext)}

\* The orders os.listdir may list a set of names in.
Orders(S) ==
    {q \in [1..Cardinality(S) -> S] : \A i, j \in 1..Cardinality(S) : i # j => q[i] # q[j]}

\* Line 171: the destination name f"{f}_{timestamp}.txt"
CopyName(f, ts) == Concat(<<f, Underscore, ts, DotTxt>>)

\* shutil.copy2(f, dst) for the entry the name f has now.
copy2(entry, fs, dstName, r) ==
    IF entry.kind = "absent" THEN [files |-> fs, exc |-> "copy2: FileNotFoundError"]
    ELSE IF entry.kind = "dir" THEN [files |-> fs, exc |-> "copy2: IsADirectoryError"]
    ELSE [files |-> WriteFile(fs, dstName, <<entry.data>>, r), exc |-> "none"]

\* -------------------------------------------------------- revision recorder
\* What the git subprocesses answer: inside in {"ok", "fail", "nogit"} is the
\* outcome of rev-parse --is-inside-work-tree (nogit: no git executable),
\* headOk and branchOk those of the two rev-parse HEAD calls, remote the
\* output of config --get remote.origin.url (<<>>: the call fails), openOk
\* whether the descriptor file can be opened for writing.
HeadOutput == <<"a", "b", "c", "1", "\n">>
BranchOutput == <<"m", "a", "i", "n", "\n">>
RemoteUrl == <<"g", "@", "h", ":", "u", "/", "d", "e", "m", "o", ".", "g", "i", "t", "\n">>

GitEnvAll ==
    [inside : {"ok", "fail", "nogit"}, headOk : BOOLEAN, branchOk : BOOLEAN,
     remote : {<<>>, RemoteUrl}, openOk : BOOLEAN]

\* One environment per distinct course of save_git_commit_to_file.
GitEnvs ==
    {e \in GitEnvAll :
        /\ e.inside # "ok" => e.headOk /\ e.branchOk
        /\ ~e.headOk => e.branchOk
        /\ ~(e.inside = "ok" /\ e.headOk /\ e.branchOk) => e.remote = <<>> /\ e.openOk
        /\ ~e.openOk => e.remote = <<>>}

\* Lines 53-73: the project name.
ProjectName(remote) ==
    IF remote = <<>> THEN Basename(CwdAbsPath)
    ELSE LET url == Strip(remote)
         IN  Basename(IF EndsWith(url, DotGit) THEN SubSeq(url, 1, Len(url) - 4) ELSE url)

GitFileName(ts) == Concat(<<GitCommitPrefix, ts, DotTxt>>)

GitFailed(log) ==
    [ret |-> FALSE, raised |-> "none", wrote |-> FALSE, name |-> <<>>, data |-> <<>>,
     log |-> log, path |-> <<>>]

\* Lines 42-87: the descriptor is composed and written, its path printed.
GitSaved(d, e, now) ==
    LET commit_hash == Strip(HeadOutput)
        branch_name == Strip(BranchOutput)
        project_name == ProjectName(e.remote)
        timestamp == Strftime(now)
    IN  IF ~e.openOk THEN GitFailed("Error: PermissionError")
        ELSE [ret |-> TRUE, raised |-> "none", wrote |-> TRUE,
              name |-> GitFileName(timestamp),
              data |-> <<project_name, branch_name, commit_hash>>,
              log |-> "Git information saved to",
              path |-> PathJoin(d, GitFileName(timestamp))]

\* Mutant: the subprocesses run without check=True; a failed query goes
\* unnoticed and the descriptor is written all the same.
save_git_commit_unchecked(d, e, now) ==
    IF e.inside = "nogit" THEN GitFailed("Error: FileNotFoundError")
    ELSE GitSaved(d, e, now)

\* save_git_commit_to_file(d) in the environment e at clock reading now.
save_git_commit_to_file(d, e, now) ==
    IF e.inside = "nogit" THEN GitFailed("Error: FileNotFoundError")
    ELSE IF e.inside = "fail" \/ ~e.headOk \/ ~e.branchOk
    THEN GitFailed("Error: Not a git repository or git is not installed.")
    ELSE GitSaved(d, e, now)

\* ------------------------------------------------------ environment exporter
\* Python's None, as a returned path (no path is empty).
None == <<>>

\* Outputs of `conda info --envs`.
\* "# e\nbase * /b\n": the active environment is named.
ListNamed ==
    <<"#", " ", "e", "\n", "b", "a", "s", "e", " ", "*", " ", "/", "b", "\n">>
\* "b /b\n  * /c\n": the active environment has no name, the asterisk comes first.
ListUnnamed == <<"b", " ", "/", "b", "\n", " ", " ", "*", " ", "/", "c", "\n">>
\* "# e\nbase /b\n": no row is marked active.
ListNoActive == <<"#", " ", "e", "\n", "b", "a", "s", "e", " ", "/", "b", "\n">>
\* "": nothing is listed.
ListEmpty == <<>>
\* "*\n": a row with the marker alone.
ListStarOnly == <<"*", "\n">>

ListOutputs == {ListNamed, ListUnnamed, ListNoActive, ListEmpty, ListStarOnly}

\* What the conda subprocesses answer: avail is whether a conda executable
\* exists, listRc and exportRc the exit statuses, listOut the listing, openOk
\* whether the manifest file can be opened for writing.
CondaEnvAll ==
    [avail : BOOLEAN, listRc : {0, 1}, listOut : ListOutputs, exportRc : {0, 1},
     openOk : BOOLEAN]

HasActive(out) == out \in {ListNamed, ListUnnamed}

\* One environment per distinct course of export_conda_environment.
CondaEnvs ==
    {e \in CondaEnvAll :
        /\ (~e.avail \/ e.listRc # 0) => e.listOut = ListNamed
        /\ (~e.avail \/ e.listRc # 0 \/ ~HasActive(e.listOut)) => e.exportRc = 0
        /\ (~e.avail \/ e.listRc # 0 \/ ~HasActive(e.listOut) \/ e.exportRc # 0) => e.openOk
        /\ ~e.avail => e.listRc = 0}

RECURSIVE FirstStarred(_, _)
\* Lines 126-127: the index of the first line holding an asterisk, from i on;
\* 0 when there is none.
FirstStarred(lines, i) ==
    IF i > Len(lines) THEN 0
    ELSE IF Contains(lines[i], "*") THEN i
    ELSE FirstStarred(lines, i + 1)

\* `conda env export -n <name> --no-builds` prints the name it was given.
ExportOutput(name) == <<"n", ":">> \o name

CondaFileName(ts) == Concat(<<CondaEnvPrefix, ts, DotYml>>)

CondaStopped(raised, log) ==
    [ret |-> None, raised |-> raised, wrote |-> FALSE, name |-> <<>>, data |-> <<>>,
     log |-> log, path |-> <<>>]

\* export_conda_environment(d) in the environment e at clock reading now.
export_conda_environment(d, e, now) ==
    IF ~e.avail THEN CondaStopped("subprocess.run: FileNotFoundError", "")
    ELSE IF e.listRc # 0 THEN CondaStopped("none", "Error running conda command:")
    ELSE LET env_info == SplitLines(Strip(e.listOut))
             i == FirstStarred(env_info, 1)
             words == IF i = 0 THEN <<>> ELSE SplitWs(env_info[i])
         IN  IF i = 0
             THEN CondaStopped("RuntimeError", "")
             ELSE IF words[1] = <<"*">> /\ Len(words) < 2
             THEN CondaStopped("IndexError", "")
             ELSE LET current_env == IF words[1] = <<"*">> THEN words[2] ELSE words[1]
                      timestamp == Strftime(now)
                  IN  IF e.exportRc # 0
                      THEN CondaStopped("none", "Error exporting environment:")
                      ELSE IF ~e.openOk
                      THEN CondaStopped("open: PermissionError", "Running command:")
                      ELSE [ret |-> None, raised |-> "none", wrote |-> TRUE,
                            name |-> CondaFileName(timestamp),
                            data |-> <<ExportOutput(current_env)>>,
                            log |-> "Environment exported to",
                            path |-> PathJoin(d, Concat(<<CondaEnvPrefix, current_env,
                                                          Underscore, timestamp, DotYml>>))]

\* ------------------------------------------------------------------- state
VARIABLES
    pc,         \* where make_workflow_reproducible stands
    run,        \* number of the current run
    clock,      \* the system clock, in ticks
    w_d,        \* the argument of make_workflow_reproducible
    cwd,        \* the entries of the current directory
    destKind,   \* what is at w_d/reproducibility: "absent", "file" or "dir"
    destFiles,  \* the files in it when it is a directory
    gitEnv,     \* what git answers
    condaEnv,   \* what conda answers
    timestamp,  \* save_files_rootdir's local timestamp
    files,      \* save_files_rootdir's local list
    idx,        \* position of its loop in files
    started,    \* the capture components called in this run
    removed,    \* the files the reset of this run deleted
    raised,     \* the exception that ended the run, "none" otherwise
    gitRes,     \* outcome of save_git_commit_to_file in this run
    condaRes    \* outcome of export_conda_environment in this run

vars ==
    <<pc, run, clock, w_d, cwd, destKind, destFiles, gitEnv, condaEnv, timestamp,
      files, idx, started, removed, raised, gitRes, condaRes>>

\* Line 179: r_d = os.path.join(w_d, "reproducibility")
r_d == PathJoin(w_d, Reproducibility)

GitNotRun == GitFailed("")
CondaNotRun == CondaStopped("none", "")

Init ==
    /\ pc = "start"
    /\ run = 1
    /\ clock = StartTick
    /\ w_d \in WorkDirs
    /\ cwd \in CwdInputs
    /\ \/ destKind = "absent" /\ destFiles = {}
       \/ destKind = "file" /\ destFiles = {}
       \/ destKind = "dir" /\ destFiles = {StaleFile}
    /\ gitEnv \in GitEnvs
    /\ condaEnv \in CondaEnvs
    /\ timestamp = <<>>
    /\ files = <<>>
    /\ idx = 1
    /\ started = {}
    /\ removed = {}
    /\ raised = "none"
    /\ gitRes = GitNotRun
    /\ condaRes = CondaNotRun

\* ----------------------------------------------------------------- actions
\* Lines 179-182: the destination is reset; an exception ends the run.
Prepare ==
    /\ pc = "start"
    /\ \E kept \in SUBSET destFiles, denied \in BOOLEAN, mkOk \in BOOLEAN :
        LET r == ResetDirectory(destKind, destFiles, kept, denied, mkOk)
        IN  /\ destKind' = r.kind
            /\ destFiles' = r.files
            /\ removed' = destFiles \ r.files
            /\ raised' = r.exc
            /\ pc' = IF r.exc = "none" THEN "list" ELSE "crashed"
    /\ UNCHANGED <<run, clock, w_d, cwd, gitEnv, condaEnv, timestamp, files, idx,
                   started, gitRes, condaRes>>

\* Lines 185, 164-167: save_files_rootdir reads the clock and lists ".".
ListFiles ==
    /\ pc = "list"
    /\ timestamp' = Strftime(clock)
    /\ files' \in Orders(MatchingFiles(ListDir(cwd, w_d, destKind), {DotPy}))
    /\ idx' = 1
    /\ started' = started \cup {"copier"}
    /\ pc' = "copy"
    /\ UNCHANGED <<removed, run, clock, w_d, cwd, destKind, destFiles, gitEnv, condaEnv,
                   raised, gitRes, condaRes>>

\* Lines 170-171: one iteration of the loop; an exception of copy2 ends the run.
CopyFile ==
    /\ pc = "copy"
    /\ idx <= Len(files)
    /\ LET f == files[idx]
           r == copy2(cwd[f], destFiles, CopyName(f, timestamp), run)
       IN  /\ destFiles' = r.files
           /\ raised' = r.exc
           /\ pc' = IF r.exc = "none" THEN "copy" ELSE "crashed"
           /\ idx' = IF r.exc = "none" THEN idx + 1 ELSE idx
    /\ UNCHANGED <<removed, run, clock, w_d, cwd, destKind, gitEnv, condaEnv, timestamp,
                   files, started, gitRes, condaRes>>

\* The loop is over: save_files_rootdir returns.
CopierReturn ==
    /\ pc = "copy"
    /\ idx > Len(files)
    /\ pc' = "git"
    /\ UNCHANGED <<removed, run, clock, w_d, cwd, destKind, destFiles, gitEnv, condaEnv,
                   timestamp, files, idx, started, raised, gitRes, condaRes>>

\* Line 188: save_git_commit_to_file(r_d); its result is dropped.
SaveGitCommit ==
    /\ pc = "git"
    /\ LET r == save_git_commit_to_file(r_d, gitEnv, clock)
       IN  /\ gitRes' = r
           /\ destFiles' = IF r.wrote THEN WriteFile(destFiles, r.name, r.data, run)
                           ELSE destFiles
           /\ raised' = r.raised
           /\ pc' = IF r.raised = "none" THEN "conda" ELSE "crashed"
    /\ started' = started \cup {"git"}
    /\ UNCHANGED <<removed, run, clock, w_d, cwd, destKind, gitEnv, condaEnv, timestamp,
                   files, idx, condaRes>>

\* Line 191: export_conda_environment(r_d); an exception of it ends the run.
ExportConda ==
    /\ pc = "conda"
    /\ LET r == export_conda_environment(r_d, condaEnv, clock)
       IN  /\ condaRes' = r
           /\ destFiles' = IF r.wrote THEN WriteFile(destFiles, r.name, r.data, run)
                           ELSE destFiles
           /\ raised' = r.raised
           /\ pc' = IF r.raised = "none" THEN "done" ELSE "crashed"
    /\ started' = started \cup {"conda"}
    /\ UNCHANGED <<removed, run, clock, w_d, cwd, destKind, gitEnv, condaEnv, timestamp,
                   files, idx, gitRes>>

\* Time passes between two steps of a run.
Tick ==
    /\ pc \in {"list", "copy", "git", "conda"}
    /\ clock < StartTick + MaxTicks
    /\ clock' = clock + 1
    /\ UNCHANGED <<removed, pc, run, w_d, cwd, destKind, destFiles, gitEnv, condaEnv,
                   timestamp, files, idx, started, raised, gitRes, condaRes>>

\* A listed file that is not copied yet is removed by someone else.
RemoveSource ==
    /\ pc = "copy"
    /\ \E i \in idx..Len(files) :
        /\ cwd[files[i]].kind = "file"
        /\ cwd' = [cwd EXCEPT ![files[i]] = Absent]
    /\ UNCHANGED <<removed, pc, run, clock, w_d, destKind, destFiles, gitEnv, condaEnv,
                   timestamp, files, idx, started, raised, gitRes, condaRes>>

\* make_workflow_reproducible is called again with the same w_d.
NextRun ==
    /\ pc \in {"done", "crashed"}
    /\ run < MaxRuns
    /\ run' = run + 1
    /\ pc' = "start"
    /\ timestamp' = <<>>
    /\ files' = <<>>
    /\ idx' = 1
    /\ started' = {}
    /\ removed' = {}
    /\ raised' = "none"
    /\ gitRes' = GitNotRun
    /\ condaRes' = CondaNotRun
    /\ UNCHANGED <<clock, w_d, cwd, destKind, destFiles, gitEnv, condaEnv>>

Next ==
    \/ Prepare
    \/ ListFiles
    \/ CopyFile
    \/ CopierReturn
    \/ SaveGitCommit
    \/ ExportConda
    \/ Tick
    \/ RemoveSource
    \/ NextRun

Spec == Init /\ [][Next]_vars

TypeOK ==
    /\ pc \in {"start", "list", "copy", "git", "conda", "done", "crashed"}
    /\ run \in 1..MaxRuns
    /\ destKind \in {"absent", "file", "dir"}
    /\ destKind # "dir" => destFiles = {}
    /\ idx \in 1..(Len(files) + 1)

\* ------------------------------------------------------------ properties
\* The string s begins with prefix.
StartsWith(s, prefix) ==
    /\ Len(s) >= Len(prefix)
    /\ SubSeq(s, 1, Len(prefix)) = prefix

\* The run is over, normally or by an exception.
Ended == pc \in {"done", "crashed"}

\* Directory preparation succeeded in this run.
Prepared == pc = "list" \/ "copier" \in started

\* The timestamp in an artifact's name: the 15 characters before the extension.
TsOf(name) == SubSeq(name, Len(name) - 18, Len(name) - 4)

DestNames == {f.name : f \in destFiles}

\* The names listed in this run that are regular files now.
ListedFiles == {files[i] : i \in {j \in 1..Len(files) : cwd[files[j]].kind = "file"}}

\* The copies the destination holds: files named after an entry of the
\* current directory with this run's copier timestamp.
CopyOf(n) == {f \in destFiles : f.name = CopyName(n, timestamp)}

\* C1: after a run whose preparation succeeded, the destination directory
\* exists and holds one byte-identical copy, named {name}_{timestamp}.txt,
\* of every regular file of the current directory whose name ends in .py,
\* and no copy of any other entry.
C1_OneCopyPerMatchingFile ==
    (Ended /\ "copier" \in started) =>
        /\ destKind = "dir"
        /\ \A n \in Names :
            IF EndsWith(n, DotPy) /\ cwd[n].kind = "file"
            THEN \E f \in CopyOf(n) : f.data = <<cwd[n].data>>
            ELSE CopyOf(n) = {}

\* C2: once the reset of a run has succeeded, every file of the destination
\* was written by that run; nothing an earlier run left, or that was there
\* before, remains.
C2_OnlyLatestRun ==
    Prepared => destKind = "dir" /\ \A f \in destFiles : f.run = run

\* A second run has finished with three artifacts after deleting what the
\* first run wrote.
C2_Witness ==
    /\ run = 2
    /\ pc = "done"
    /\ Cardinality(destFiles) >= 3
    /\ \E f \in removed : f.run = 1

\* C3: all artifacts a run wrote carry the same timestamp in their names.
C3_SameTimestamp ==
    \A f, g \in {h \in destFiles : h.run = run} : TsOf(f.name) = TsOf(g.name)

\* C4: once preparation has succeeded, a run that is over has called all
\* three capture components, whatever failed in any of them.
C4_AllComponentsRun ==
    (Ended /\ Prepared) => started = {"copier", "git", "conda"}

\* The revision recorder was called outside a work tree, or without git.
NotARepository == "git" \in started /\ gitEnv.inside \in {"fail", "nogit"}

\* Every conda subprocess succeeds and the manifest can be written.
CondaSucceeds ==
    /\ condaEnv.avail
    /\ condaEnv.listRc = 0
    /\ HasActive(condaEnv.listOut)
    /\ condaEnv.exportRc = 0
    /\ condaEnv.openOk

HasManifest == \E f \in destFiles : StartsWith(f.name, CondaEnvPrefix) /\ f.run = run

\* C5: outside a version-controlled tree, or without git, the revision
\* recorder returns False without raising and writes no descriptor; the copies
\* of the source files stay, the exporter is still called, and its manifest
\* is there when conda succeeds.
C5_NoRepositoryIsNotFatal ==
    NotARepository =>
        /\ gitRes.ret = FALSE
        /\ gitRes.raised = "none"
        /\ \A f \in destFiles : ~StartsWith(f.name, GitCommitPrefix)
        /\ \A i \in 1..Len(files) :
            \E f \in CopyOf(files[i]) : f.data = <<cwd[files[i]].data>>
        /\ pc \in {"conda", "done", "crashed"}
        /\ Ended => "conda" \in started
        /\ (Ended /\ CondaSucceeds) => pc = "done" /\ HasManifest

\* A run outside a work tree has finished with two copies and the manifest.
C5_Witness ==
    /\ NotARepository
    /\ gitEnv.inside = "fail"
    /\ pc = "done"
    /\ Len(files) = 2
    /\ HasManifest

\* The listing succeeded and has no line with an asterisk.
NoActiveRow ==
    /\ "conda" \in started
    /\ condaEnv.avail
    /\ condaEnv.listRc = 0
    /\ FirstStarred(SplitLines(Strip(condaEnv.listOut)), 1) = 0

\* C6: when the listing marks no row active, the exporter writes no manifest,
\* the other artifacts stay, and no exception of the exporter ends the run.
C6_NoActiveEnvironmentIsNotFatal ==
    NoActiveRow =>
        /\ ~HasManifest
        /\ gitRes.wrote => gitRes.name \in DestNames
        /\ \A i \in 1..Len(files) : CopyOf(files[i]) # {}
        /\ condaRes.raised = "none"
        /\ pc = "done"

\* C7: the exporter returns the path of the manifest it wrote, and returns
\* None, without raising and without a manifest, when a subprocess exits
\* non-zero.
C7_ReturnsManifestPath ==
    "conda" \in started =>
        /\ condaRes.wrote => condaRes.ret = PathJoin(r_d, condaRes.name)
        /\ (condaEnv.avail /\ (condaEnv.listRc # 0 \/ condaEnv.exportRc # 0)) =>
            ~condaRes.wrote /\ condaRes.ret = None /\ condaRes.raised = "none"

\* C8: the path a component prints on success is the path of a file of the
\* destination directory.
C8_PrintedPathExists ==
    /\ gitRes.wrote => \E f \in destFiles : PathJoin(r_d, f.name) = gitRes.path
    /\ condaRes.wrote => \E f \in destFiles : PathJoin(r_d, f.name) = condaRes.path

\* One step of a run whose preparation fails, and what follows it.
PreparationIsFatal ==
    /\ (pc = "start" /\ destKind = "file" /\ pc' # "start") => pc' = "crashed"
    /\ (pc = "start" /\ pc' = "crashed") =>
        /\ raised' # "none"
        /\ started' = {}
        /\ \A f \in destFiles' : f.run # run
    /\ (pc = "start" /\ destKind = "dir" /\ raised' = "mkdir: PermissionError") =>
        destKind' = "absent" /\ destFiles' = {}
    /\ (pc = "crashed" /\ started = {}) =>
        /\ started' = {}
        /\ destFiles' = destFiles
        /\ gitRes' = GitNotRun /\ condaRes' = CondaNotRun

\* C9: a destination that is not a directory, or a failing deletion or
\* creation, ends the run with an exception before any capture component is
\* called or any artifact written; when the creation fails after the
\* deletion, the destination is left absent.
C9_PreparationFailureIsFatal == [][PreparationIsFatal]_vars

\* The creation failed after the old directory, with files in it, was deleted.
C9_Witness ==
    /\ pc = "crashed"
    /\ raised = "mkdir: PermissionError"
    /\ removed # {}
    /\ destKind = "absent"
    /\ started = {}

\* C10: when a listed file is gone at the time of its copy, the run goes on:
\* every other listed file that is there is copied.
C10_MissingFileIsSkipped ==
    (Ended /\ "copier" \in started /\ \E i \in 1..Len(files) : cwd[files[i]].kind = "absent") =>
        /\ raised # "copy2: FileNotFoundError"
        /\ \A n \in ListedFiles : CopyOf(n) # {}
====
